---- MODULE Spec2Model ----
(***************************************************************************)
(* Model of zim/www.py: the WSGI request dispatcher WWWInterface.__call__  *)
(* with its error classes.                                                  *)
(*                                                                          *)
(* Text is a sequence of one-character strings, so that replace, split,    *)
(* join, startswith, endswith, slicing and percent-decoding are computed   *)
(* character by character as the Python code computes them.  Fixed message *)
(* texts ("Not Found", "No such page: ") are single atoms of such a        *)
(* sequence.  The collaborators of the dispatcher (notebook, filesystem,   *)
(* template) are not part of www.py: every answer they give is an input,   *)
(* drawn from a small set (the record ext).                                 *)
(***************************************************************************)
EXTENDS Integers, Sequences, FiniteSets, TLC

(* ------------------------------ bounds -------------------------------- *)

\* Largest number of path segments the transport delivers after the prefix.
MaxSegments == 2

(* ------------------------------ text ---------------------------------- *)

BSLASH == "\\"

\* The character that stands for the byte 0xFF of a latin-1 PATH_INFO.
xFF == "0xFF"
\* The bytes 0xC3 0xA9 of a latin-1 PATH_INFO: the UTF-8 encoding of e-acute.
xC3 == "0xC3"
xA9 == "0xA9"
eacute == "e-acute"

RECURSIVE Flatten(_)
\* ''.join(parts)
Flatten(ss) == IF ss = <<>> THEN <<>> ELSE Head(ss) \o Flatten(Tail(ss))

\* str.startswith
startswith(s, pre) ==
    /\ Len(s) >= Len(pre)
    /\ SubSeq(s, 1, Len(pre)) = pre

\* str.endswith
endswith(s, suf) ==
    /\ Len(s) >= Len(suf)
    /\ SubSeq(s, Len(s) - Len(suf) + 1, Len(s)) = suf

\* str.replace for a single character
replace(s, old, new) == [i \in 1..Len(s) |-> IF s[i] = old THEN new ELSE s[i]]

RECURSIVE splitFrom(_, _, _)
\* The segments of s with the current segment cur under construction.
splitFrom(s, sep, cur) ==
    IF s = <<>> THEN <<cur>>
    ELSE IF Head(s) = sep THEN <<cur>> \o splitFrom(Tail(s), sep, <<>>)
    ELSE splitFrom(Tail(s), sep, Append(cur, Head(s)))

\* str.split(sep): '' gives [''], '/a' gives ['', 'a'].
split(s, sep) == splitFrom(s, sep, <<>>)

RECURSIVE join(_, _)
\* sep.join(parts)
join(parts, sep) ==
    IF parts = <<>> THEN <<>>
    ELSE IF Len(parts) = 1 THEN Head(parts)
    ELSE Head(parts) \o sep \o join(Tail(parts), sep)

\* The two-digit hex escapes urllib.parse.unquote meets in this model.
HexTable ==
    (<<"2", "e">> :> ".") @@ (<<"2", "E">> :> ".") @@
    (<<"2", "f">> :> "/") @@ (<<"2", "F">> :> "/") @@
    (<<"5", "c">> :> BSLASH) @@ (<<"5", "C">> :> BSLASH) @@
    (<<"2", "5">> :> "%")

RECURSIVE unquote(_)
\* urllib.parse.unquote: every %XX becomes the character it encodes; a '%'
\* not followed by two hex digits stays.
unquote(s) ==
    IF s = <<>> THEN <<>>
    ELSE IF /\ Head(s) = "%"
            /\ Len(s) >= 3
            /\ <<s[2], s[3]>> \in DOMAIN HexTable
         THEN <<HexTable[<<s[2], s[3]>>]>> \o unquote(SubSeq(s, 4, Len(s)))
         ELSE <<Head(s)>> \o unquote(Tail(s))

RECURSIVE utf8(_)
\* path.encode('iso-8859-1').decode('UTF-8'): the characters are read as
\* bytes and the bytes as UTF-8.  ASCII stays, 0xC3 0xA9 is one character,
\* a lone 0xC3, 0xA9 or 0xFF is no UTF-8: the result is then
\* <<"UnicodeDecodeError">>, otherwise <<"ok", text>>.
utf8(s) ==
    IF s = <<>> THEN <<"ok", <<>>>>
    ELSE IF Head(s) = xC3
         THEN IF Len(s) >= 2 /\ s[2] = xA9
              THEN LET rest == utf8(SubSeq(s, 3, Len(s)))
                   IN  IF rest[1] = "ok" THEN <<"ok", <<eacute>> \o rest[2]>>
                       ELSE rest
              ELSE <<"UnicodeDecodeError">>
    ELSE IF Head(s) \in {xFF, xA9} THEN <<"UnicodeDecodeError">>
    ELSE LET rest == utf8(Tail(s))
         IN  IF rest[1] = "ok" THEN <<"ok", <<Head(s)>> \o rest[2]>> ELSE rest

(* --------------------------- error classes ---------------------------- *)

\* WWWError.statusstring
statusstring ==
    ("403" :> "Forbidden") @@ ("404" :> "Not Found") @@
    ("405" :> "Method Not Allowed") @@ ("500" :> "Internal Server Error")

\* '%s %s' % (status, self.statusstring[status])
statusline(status) == <<status, statusstring[status]>>

\* WWWError.__init__(self, msg, status='500', headers=None); description is
\* the class attribute of the subclass ('' for WWWError itself).
WWWError(msg, status, headers, description) ==
    [type        |-> "WWWError",
     status      |-> statusline(status),
     headers     |-> headers,
     msg         |-> IF msg # <<>> THEN statusline(status) \o <<" - ">> \o msg
                     ELSE statusline(status),
     description |-> description]

\* WebPageNotFoundError.__init__(self, page): page is a str or an object
\* with a name (a Path).
WebPageNotFoundError(page) ==
    LET name == IF page.type # "str" THEN page.name ELSE page.value
    IN  WWWError(<<"No such page: ">> \o name, "404", <<>>,
                 <<"You tried to open a page that does not exist.">>)

\* WebPathNotValidError.__init__(self)
WebPathNotValidError ==
    WWWError(<<"Invalid path">>, "403", <<>>,
             <<"The requested path is not valid">>)

\* An exception raised by a collaborator: FileNotFoundError (zim.newfs),
\* PageNotFoundError (zim.notebook) or any other exception ("Error").
Raised(type) ==
    [type |-> type, status |-> <<>>, headers |-> <<>>,
     msg |-> <<type>>, description |-> <<>>]

\* str(error).splitlines(True) of a zim Error: the message, then the
\* description when the class has one.
strlines(error) ==
    IF error.description = <<>> THEN <<error.msg>>
    ELSE <<error.msg, error.description>>

(* ------------------------------ values -------------------------------- *)

\* A str value and a notebook Path value, as the variable path holds them.
str(value) == [type |-> "str", value |-> value, name |-> <<>>]
Path(name) == [type |-> "Path", value |-> <<>>, name |-> name]

\* What a request handling yields: the start_response calls made, the body
\* returned, the exception that escaped ("none" if none), the collaborator
\* calls made, the answers of ext that were consulted, and environ after it.
Result(started, body, raised, accessed, used, environ) ==
    [started |-> started, body |-> body, raised |-> raised,
     accessed |-> accessed, used |-> used, environ |-> environ]

(* ------------------------------ auth gate ----------------------------- *)

\* str.lower() of the authentication schemes of this model.
lower(scheme) ==
    CASE scheme \in {"Basic", "basic", "BASIC"} -> "basic"
      [] scheme \in {"Bearer", "bearer"} -> "bearer"
      [] OTHER -> scheme

\* base64.b64decode(data).decode('UTF-8'): the credential text a data word
\* encodes.
b64decode(data) == data.b64

\* bad_auth(): the 401 challenge.  The body is returned whatever the method.
bad_auth(environ) ==
    Result(<< <<<<"401", "Unauthorized">>,
                << <<"Content-Type", "text/plain">>,
                   <<"Content-Length", "19">>,
                   <<"WWW-Authenticate", "Basic realm=\"zimAuth\"">> >> >> >>,
           << <<"Please authenticate">> >>, "none", <<>>, {}, environ)

\* Lines 146-170.  <<"pass", environ'>> when the request goes on,
\* <<"done", result>> when the gate answers or an exception escapes it.
AuthGate(auth_creds, environ) ==
    IF auth_creds = <<>> THEN <<"pass", environ>>
    ELSE LET auth == environ.HTTP_AUTHORIZATION
         IN  IF auth = <<>> THEN <<"done", bad_auth(environ)>>
             ELSE IF Len(auth) # 2
                  \* scheme, data = auth.split(None, 1)
                  THEN <<"done", Result(<<>>, <<>>, "ValueError", <<>>, {}, environ)>>
             ELSE IF lower(auth[1]) # "basic"
                  \* assert scheme.lower() == 'basic'
                  THEN <<"done", Result(<<>>, <<>>, "AssertionError", <<>>, {}, environ)>>
             ELSE LET cred == split(b64decode(auth[2]), ":")
                  IN  IF Len(cred) # 2
                      \* username, password = ....split(':')
                      THEN <<"done", Result(<<>>, <<>>, "ValueError", <<>>, {}, environ)>>
                      ELSE IF cred[1] # auth_creds[1] \/ cred[2] # auth_creds[2]
                      THEN <<"done", bad_auth(environ)>>
                      ELSE <<"pass", [environ EXCEPT !.REMOTE_USER = cred[1],
                                                     !.HTTP_AUTHORIZATION = <<>>]>>

(* ------------------------------ resolver ------------------------------ *)

\* The answers of the collaborators during one request:
\*   document_root  notebook.document_root is set
\*   resources_dir  template.resources_dir is set
\*   exists         file.exists() of the file in resources_dir
\*   data_file      data_file('pixmaps/...') finds a file (else None)
\*   read           file.read_binary(): "ok" or the exception it raises
\*   lookup         notebook.pages.lookup_from_user_input(): "ok" or "Error"
\*   page           notebook.get_page(): the page found, as what it has
\*                  ("content+children", "content", "children", "empty"),
\*                  or the exception it raises
\*   render         createIndexPage/template.process: "ok" or the exception
ExtDomain ==
    [document_root |-> BOOLEAN,
     resources_dir |-> BOOLEAN,
     exists        |-> BOOLEAN,
     data_file     |-> BOOLEAN,
     read          |-> {"ok", "FileNotFoundError", "Error"},
     lookup        |-> {"ok", "Error"},
     page          |-> {"content+children", "content", "children", "empty",
                        "PageNotFoundError", "Error"},
     render        |-> {"ok", "FileNotFoundError", "Error"}]

NoError == Raised("none")

\* The try block left by an exception, with the value of path at that point.
Fail(exc, path, accessed, used) ==
    [exc |-> exc, path |-> path, headerlist |-> <<>>, content |-> <<>>,
     accessed |-> accessed, used |-> used]

\* The try block run to its end.
Done(headerlist, content, path, accessed, used) ==
    [exc |-> NoError, path |-> path, headerlist |-> headerlist,
     content |-> content, accessed |-> accessed, used |-> used]

HtmlType == <<"Content-Type", "text/html; charset=\"utf-8\"">>
PlainType == <<"Content-Type", "text/plain; charset=\"utf-8\"">>
MimeType == <<"Content-Type", "file.mimetype()">>

\* render_page(page): the lines template.process yields for the page, or
\* the exception it raises.  kind tells a page from an index page.
render_page(kind, name, path, accessed, used, ext) ==
    LET acc == Append(accessed, <<"template.process", name>>)
        use == used \cup {"render"}
    IN  IF ext.render = "ok"
        THEN Done(<<HtmlType>>, << <<kind>> \o name >>, path, acc, use)
        ELSE Fail(Raised(ext.render), path, acc, use)

\* render_index(namespace): path = namespace or Path(':'), the index page
\* of it is created and rendered as a page.
render_index(namespace, path, accessed, used, ext) ==
    LET name == IF namespace = <<>> THEN <<":">> ELSE namespace
    IN  render_page("index of ", name, path,
                    Append(accessed, <<"createIndexPage", name>>), used, ext)

\* file = adapt_from_oldfs(file); content = [file.read_binary()];
\* headers['Content-Type'] = file.mimetype()
read_binary(root, rel, path, accessed, used, ext) ==
    LET acc == Append(accessed, <<"read_binary", rel>>)
        use == used \cup {"read"}
    IN  IF ext.read = "ok"
        THEN Done(<<MimeType>>, << <<root>> \o rel >>, path, acc, use)
        ELSE Fail(Raised(ext.read), path, acc, use)

\* A lookup that renders the index of a page without content whether or
\* not it has children.
get_page_any_index(path, pagename, ext) ==
    LET acc1 == <<<<"lookup_from_user_input", pagename>>>>
    IN  IF ext.lookup # "ok"
        THEN Fail(Raised(ext.lookup), str(path), acc1, {"lookup"})
        ELSE
        LET p == Path(pagename)
            acc2 == Append(acc1, <<"get_page", pagename>>)
            use2 == {"lookup", "page"}
        IN  CASE ext.page \in {"content+children", "content"} ->
                   render_page("page ", pagename, p, acc2, use2, ext)
              [] ext.page \in {"children", "empty"} ->
                   render_index(pagename, p, acc2, use2, ext)
              [] ext.page = "PageNotFoundError" ->
                   Fail(WebPageNotFoundError(p), p, acc2, use2)
              [] OTHER ->
                   Fail(Raised(ext.page), p, acc2, use2)

\* A lookup that looks at the children before the content.
get_page_children_first(path, pagename, ext) ==
    LET acc1 == <<<<"lookup_from_user_input", pagename>>>>
    IN  IF ext.lookup # "ok"
        THEN Fail(Raised(ext.lookup), str(path), acc1, {"lookup"})
        ELSE
        LET p == Path(pagename)
            acc2 == Append(acc1, <<"get_page", pagename>>)
            use2 == {"lookup", "page"}
        IN  CASE ext.page \in {"content+children", "children"} ->
                   render_index(pagename, p, acc2, use2, ext)
              [] ext.page = "content" ->
                   render_page("page ", pagename, p, acc2, use2, ext)
              [] ext.page = "empty" ->
                   Fail(WebPageNotFoundError(p), p, acc2, use2)
              [] ext.page = "PageNotFoundError" ->
                   Fail(WebPageNotFoundError(p), p, acc2, use2)
              [] OTHER ->
                   Fail(Raised(ext.page), p, acc2, use2)

\* Lines 246-256: the page is looked up and rendered: its content if it
\* has any, else the index of its children if it has any, else not found.
\* path is the Path of the page from the lookup on; the Path is written as
\* the page name it was made from.
get_page(path, pagename, ext) ==
    LET acc1 == <<<<"lookup_from_user_input", pagename>>>>
    IN  IF ext.lookup # "ok"
        THEN Fail(Raised(ext.lookup), str(path), acc1, {"lookup"})
        ELSE
        LET p == Path(pagename)
            acc2 == Append(acc1, <<"get_page", pagename>>)
            use2 == {"lookup", "page"}
        IN  CASE ext.page \in {"content+children", "content"} ->
                   render_page("page ", pagename, p, acc2, use2, ext)
              [] ext.page = "children" ->
                   render_index(pagename, p, acc2, use2, ext)
              [] ext.page = "empty" ->
                   Fail(WebPageNotFoundError(p), p, acc2, use2)
              [] ext.page = "PageNotFoundError" ->
                   Fail(WebPageNotFoundError(p), p, acc2, use2)
              [] OTHER ->
                   Fail(Raised(ext.page), p, acc2, use2)

\* Lines 236-245: a page (html file) or a namespace (directory path).
ResolvePage(path, ext) ==
    LET html == <<".", "h", "t", "m", "l">>
    IN  IF endswith(path, html)
        THEN get_page(path, replace(SubSeq(path, 1, Len(path) - 5), "/", ":"), ext)
        ELSE IF endswith(path, <<"/">>)
        THEN get_page(path, replace(SubSeq(path, 1, Len(path) - 1), "/", ":"), ext)
        ELSE Fail(WebPageNotFoundError(str(path)), str(path), <<>>, {})

\* Lines 202-256: the resource the cleaned path names.
Resolve(path, ext) ==
    LET docs == <<"/", "+", "d", "o", "c", "s", "/">>
        file == <<"/", "+", "f", "i", "l", "e", "/">>
        resources == <<"/", "+", "r", "e", "s", "o", "u", "r", "c", "e", "s", "/">>
        pixmaps == <<"p", "i", "x", "m", "a", "p", "s", "/">>
    IN
    IF path = <<"/">> THEN render_index(<<>>, str(path), <<>>, {}, ext)
    ELSE IF startswith(path, docs) THEN
        LET rel == SubSeq(path, 8, Len(path))
        IN  IF ~ext.document_root
            THEN Fail(WebPageNotFoundError(str(path)), str(path), <<>>,
                      {"document_root"})
            ELSE read_binary("document_root/", rel, str(path),
                             <<<<"document_root.file", rel>>>>,
                             {"document_root"}, ext)
    ELSE IF startswith(path, file) THEN
        LET rel == SubSeq(path, 8, Len(path))
        IN  read_binary("folder/", rel, str(path),
                        <<<<"folder.file", rel>>>>, {}, ext)
    ELSE IF startswith(path, resources) THEN
        LET rel == SubSeq(path, 13, Len(path))
            inres == <<"resources_dir.file", rel>>
            indata == <<"data_file", pixmaps \o rel>>
        IN  IF ext.resources_dir /\ ext.exists
            THEN read_binary("resources_dir/", rel, str(path), <<inres>>,
                             {"resources_dir", "exists"}, ext)
            ELSE LET acc == IF ext.resources_dir THEN <<inres, indata>>
                            ELSE <<indata>>
                     use == IF ext.resources_dir
                            THEN {"resources_dir", "exists", "data_file"}
                            ELSE {"resources_dir", "data_file"}
                 IN  IF ext.data_file
                     THEN read_binary("data/", pixmaps \o rel, str(path),
                                      acc, use, ext)
                     ELSE Fail(WebPageNotFoundError(str(path)), str(path),
                               acc, use)
    ELSE ResolvePage(path, ext)

(* ------------------------------ dispatcher ---------------------------- *)

methods == {"GET", "HEAD"}

\* A cleanup that rejects the parent directory only: hidden files pass.
hidden_dotdot(parts) == SelectSeq(parts, LAMBDA p : p = <<".", ".">>)

\* Line 188: [p for p in parts if p.startswith('.')]
hidden(parts) == SelectSeq(parts, LAMBDA p : startswith(p, <<".">>))

\* Line 261: isinstance(error, (WWWError, FileNotFoundError))
is_known(exc) == exc.type \in {"WWWError", "FileNotFoundError"}

\* Lines 179-200: the method check and the cleanup of the path.
\* <<"raise", outcome>> when an exception leaves the try block here,
\* <<"path", path>> with the path the resolution works on otherwise.
Cleanup(method, path) ==
    IF method \notin methods
    THEN \* raise WWWError('405', headers=[('Allow', ', '.join(methods))]):
         \* '405' is the first positional parameter, msg; status keeps its
         \* default, '500'.
         <<"raise",
           Fail(WWWError(<<"405">>, "500", << <<"Allow", "GET, HEAD">> >>, <<>>),
                str(path), <<>>, {})>>
    ELSE
    LET slashed == replace(path, BSLASH, "/")
        isdir == endswith(slashed, <<"/">>)
        parts == SelectSeq(split(slashed, "/"),
                           LAMBDA p : p # <<>> /\ p # <<".">>)
    IN  IF hidden(parts) # <<>>
        THEN <<"raise", Fail(WebPathNotValidError, str(slashed), <<>>, {})>>
        ELSE
        LET joined == <<"/">> \o join(parts, <<"/">>)
            cleaned == IF isdir /\ joined # <<"/">>
                       THEN joined \o <<"/">> ELSE joined
            favicon == <<"/", "f", "a", "v", "i", "c", "o", "n", ".", "i", "c", "o">>
        IN  <<"path",
              IF cleaned = <<>> THEN <<"/">>
              ELSE IF cleaned = favicon
              THEN <<"/", "+", "r", "e", "s", "o", "u", "r", "c", "e", "s", "/">>
                   \o SubSeq(favicon, 2, Len(favicon))
              ELSE unquote(cleaned)>>

\* A response that sends the message of an unexpected exception to the
\* client.
Respond_leaky(t, environ) ==
    LET head == environ.REQUEST_METHOD = "HEAD"
    IN
    IF t.exc.type # "none"
    THEN LET error == IF t.exc.type = "FileNotFoundError"
                      THEN WebPageNotFoundError(t.path)
                      ELSE IF t.exc.type = "WWWError" THEN t.exc
                      ELSE WWWError(t.exc.msg, "500", <<>>, <<>>)
             headerlist == <<PlainType>> \o error.headers
         IN  Result(<< <<error.status, headerlist>> >>,
                    IF head THEN <<>> ELSE strlines(error),
                    "none", t.accessed, t.used, environ)
    ELSE Result(<< <<<<"200", "OK">>, t.headerlist>> >>,
                IF head THEN <<>> ELSE t.content,
                "none", t.accessed, t.used, environ)

\* Lines 257-290: the response for the outcome t of the try block.
Respond(t, environ) ==
    LET head == environ.REQUEST_METHOD = "HEAD"
    IN
    IF t.exc.type # "none"
    THEN IF is_known(t.exc)
         THEN LET error == IF t.exc.type = "FileNotFoundError"
                           THEN WebPageNotFoundError(t.path)
                           ELSE t.exc
                  headerlist == <<PlainType>> \o error.headers
              IN  Result(<< <<error.status, headerlist>> >>,
                         IF head THEN <<>> ELSE strlines(error),
                         "none", t.accessed, t.used, environ)
         ELSE Result(<< <<<<"500", "Internal Server Error">>, <<PlainType>>>> >>,
                     IF head THEN <<>> ELSE << <<"Internal Server Error">> >>,
                     "none", t.accessed, t.used, environ)
    ELSE Result(<< <<<<"200", "OK">>, t.headerlist>> >>,
                IF head THEN <<>> ELSE t.content,
                "none", t.accessed, t.used, environ)

\* Lines 146-200: __call__ up to the resolution.  <<"done", result>> when
\* the call ends before it, <<"resolve", environ, path>> otherwise.
Prepare(auth_creds, environ) ==
    LET gate == AuthGate(auth_creds, environ)
    IN  IF gate[1] = "done" THEN gate
        ELSE
        LET env == gate[2]
            path == utf8(env.PATH_INFO)
        IN  IF path[1] # "ok"
            THEN <<"done", Result(<<>>, <<>>, path[1], <<>>, {}, env)>>
            ELSE LET clean == Cleanup(env.REQUEST_METHOD, path[2])
                 IN  IF clean[1] = "raise"
                     THEN <<"done", Respond(clean[2], env)>>
                     ELSE <<"resolve", env, clean[2]>>

\* WWWInterface.__call__(environ, start_response)
Handle(auth_creds, environ, ext) ==
    LET p == Prepare(auth_creds, environ)
    IN  IF p[1] = "done" THEN p[2]
        ELSE Respond(Resolve(p[3], ext), p[2])

(* ------------------------------ requests ------------------------------ *)

Methods == {"GET", "HEAD", "POST"}

Prefixes ==
    { <<>>,
      <<"/", "+", "d", "o", "c", "s">>,
      <<"/", "+", "f", "i", "l", "e">>,
      <<"/", "+", "r", "e", "s", "o", "u", "r", "c", "e", "s">>,
      <<"/", "f", "a", "v", "i", "c", "o", "n", ".", "i", "c", "o">> }

Names ==
    { <<>>, <<"a">>, <<".">>, <<".", ".">>,
      <<"%", "2", "e", "%", "2", "e">>,
      <<BSLASH, ".", "a">>,
      <<xFF>>, <<xC3, xA9>> }

Suffixes == { <<>>, <<".", "h", "t", "m", "l">> }

Segments == { <<"/">> \o n : n \in Names }

\* The raw PATH_INFO values: a prefix, at most MaxSegments segments, a suffix.
Paths ==
    { pre \o Flatten(segs) \o suf :
        pre \in Prefixes,
        segs \in UNION { [1..n -> Segments] : n \in 0..MaxSegments },
        suf \in Suffixes }

Credentials == << <<"u">>, <<"p">> >>

b64(text) == [b64 |-> text]

\* HTTP_AUTHORIZATION as auth.split(None, 1) sees it: <<>> is a missing (or
\* empty) header.
AuthHeaders ==
    { <<>>,
      <<"Basic", b64(<<"u", ":", "p">>)>>,
      <<"Basic", b64(<<"u", ":", "x">>)>>,
      <<"Basic", b64(<<"u", ":", "p", ":", "q">>)>>,
      <<"Bearer", b64(<<"u", ":", "p">>)>>,
      <<"Basic">> }

\* The headers the requests carry: a server without credentials never reads
\* the header, and is sent none or a well-formed one.
HeadersFor(creds) ==
    IF creds = <<>>
    THEN { <<>>, <<"Basic", b64(<<"u", ":", "p">>)>> }
    ELSE AuthHeaders

\* The answers when nothing is missing and nothing fails.
DefaultExt ==
    [document_root |-> TRUE, resources_dir |-> TRUE, exists |-> TRUE,
     data_file |-> TRUE, read |-> "ok", lookup |-> "ok",
     page |-> "content+children", render |-> "ok"]

ExtFields == <<"document_root", "resources_dir", "exists", "data_file",
               "read", "lookup", "page", "render">>

RECURSIVE Vary(_, _, _)
\* The answer records that differ from one of S in the fields of used only.
Vary(S, used, i) ==
    IF i > Len(ExtFields) THEN S
    ELSE LET f == ExtFields[i]
         IN  IF f \in used
             THEN Vary({ [e EXCEPT ![f] = v] : e \in S, v \in ExtDomain[f] },
                       used, i + 1)
             ELSE Vary(S, used, i + 1)

\* One more round of answers: each record of S varied in what the
\* resolution of path consulted.
Widen(path, S) == UNION { Vary({e}, Resolve(path, e).used, 1) : e \in S }

\* The answers the resolution of path can meet, one record per different
\* run: an answer the run never consults is left at its default.
Answers(path) ==
    { e \in Widen(path, Widen(path, {DefaultExt})) :
        \A i \in 1..Len(ExtFields) :
            ExtFields[i] \notin Resolve(path, e).used
                => e[ExtFields[i]] = DefaultExt[ExtFields[i]] }

(* ------------------------------ state --------------------------------- *)

VARIABLES
    auth_creds,   \* self.auth_creds: <<>> (None) or <<username, password>>
    pc,           \* "idle" between requests, "done" after __call__ returned
    request,      \* environ as the transport passed it
    ext,          \* the collaborators' answers during this request
    environ,      \* environ after the call
    started,      \* the start_response calls: <<status, headers>> each
    body,         \* the list __call__ returned
    raised,       \* the exception that escaped __call__, "none" if none
    accessed      \* the collaborator calls made: <<call, argument>> each

vars == <<auth_creds, pc, request, ext, environ, started, body, raised, accessed>>

NoRequest ==
    [REQUEST_METHOD |-> "", PATH_INFO |-> <<>>, HTTP_AUTHORIZATION |-> <<>>,
     REMOTE_USER |-> <<>>]

Init ==
    /\ auth_creds \in {<<>>, Credentials}
    /\ pc = "idle"
    /\ request = NoRequest
    /\ environ = NoRequest
    /\ ext = DefaultExt
    /\ started = <<>>
    /\ body = <<>>
    /\ raised = "none"
    /\ accessed = <<>>

\* The transport calls the application with one request; the call runs to
\* its end.
Call ==
    /\ pc = "idle"
    /\ \E method \in Methods, path \in Paths,
          auth \in HeadersFor(auth_creds) :
         LET env == [REQUEST_METHOD |-> method, PATH_INFO |-> path,
                     HTTP_AUTHORIZATION |-> auth, REMOTE_USER |-> <<>>]
             p == Prepare(auth_creds, env)
         IN  \E e \in IF p[1] = "done" THEN {DefaultExt} ELSE Answers(p[3]) :
               LET r == IF p[1] = "done" THEN p[2]
                        ELSE Respond(Resolve(p[3], e), p[2])
               IN  /\ request' = env
                   /\ ext' = e
                   /\ environ' = r.environ
                   /\ started' = r.started
                   /\ body' = r.body
                   /\ raised' = r.raised
                   /\ accessed' = r.accessed
    /\ pc' = "done"
    /\ UNCHANGED auth_creds

\* The transport has sent the response: nothing of the request is kept.
Finish ==
    /\ pc = "done"
    /\ pc' = "idle"
    /\ request' = NoRequest
    /\ environ' = NoRequest
    /\ ext' = DefaultExt
    /\ started' = <<>>
    /\ body' = <<>>
    /\ raised' = "none"
    /\ accessed' = <<>>
    /\ UNCHANGED auth_creds

Next == Call \/ Finish

Spec == Init /\ [][Next]_vars

(* ------------------------------ properties ---------------------------- *)

\* The status and the headers of the response; <<>> unless start_response
\* was called exactly once.
Status == IF Len(started) = 1 THEN started[1][1] ELSE <<>>
Headers == IF Len(started) = 1 THEN started[1][2] ELSE <<>>
HasHeader(name, value) == \E i \in 1..Len(Headers) : Headers[i] = <<name, value>>

\* The request was handled, it passed the auth gate (or none is configured)
\* and its PATH_INFO is UTF-8: the call reached the try block.
ReachedTry ==
    /\ pc = "done"
    /\ AuthGate(auth_creds, request)[1] = "pass"
    /\ utf8(request.PATH_INFO)[1] = "ok"

\* The segments of the requested path, backslashes read as slashes.
RawSegments == split(replace(utf8(request.PATH_INFO)[2], BSLASH, "/"), "/")

\* The path the resolution works on, <<>> if the call ended before it.
ResolvedPath ==
    LET p == Prepare(auth_creds, request)
    IN  IF pc = "done" /\ p[1] = "resolve" THEN p[3] ELSE <<>>

IsPrefixed(path) ==
    \/ startswith(path, <<"/", "+", "d", "o", "c", "s", "/">>)
    \/ startswith(path, <<"/", "+", "f", "i", "l", "e", "/">>)
    \/ startswith(path, <<"/", "+", "r", "e", "s", "o", "u", "r", "c", "e", "s", "/">>)

\* The request is for a page: its cleaned path ends in '.html'.
PageRequest ==
    /\ endswith(ResolvedPath, <<".", "h", "t", "m", "l">>)
    /\ ~IsPrefixed(ResolvedPath)

\* The request is for a namespace index: its cleaned path ends in '/'.
NamespaceRequest ==
    /\ endswith(ResolvedPath, <<"/">>)
    /\ ResolvedPath # <<"/">>
    /\ ~IsPrefixed(ResolvedPath)

\* Whether sub occurs in s as a contiguous run: sub in s.
Contains(s, sub) ==
    \E i \in 0..(Len(s) - Len(sub)) : SubSeq(s, i + 1, i + Len(sub)) = sub

\* No segment of text (split on sep) starts with a dot.
NoDotSegment(text, sep) ==
    \A i \in 1..Len(split(text, sep)) : ~startswith(split(text, sep)[i], <<".">>)

\* C1: a request that reaches the method check with a method other than GET
\* and HEAD is answered 405 Method Not Allowed with the header Allow: GET, HEAD.
C1_MethodNotAllowed ==
    (ReachedTry /\ request.REQUEST_METHOD \notin {"GET", "HEAD"})
        => /\ Status = <<"405", "Method Not Allowed">>
           /\ HasHeader("Allow", "GET, HEAD")

C3_NoDotHandedOn ==
    pc = "done" =>
        \A i \in 1..Len(accessed) :
            accessed[i][1] \in {"document_root.file", "folder.file",
                                "resources_dir.file", "data_file"}
                => NoDotSegment(accessed[i][2], "/")

\* C4: a HEAD request gets an empty body, and the status and headers of the
\* GET request with the same path, headers and answers of the collaborators.
C4_HeadLikeGet ==
    (pc = "done" /\ request.REQUEST_METHOD = "HEAD")
        => /\ body = <<>>
           /\ raised = "none"
           /\ started = Handle(auth_creds,
                               [request EXCEPT !.REQUEST_METHOD = "GET"],
                               ext).started

\* C5: with credentials configured, a request without the Basic credentials
\* configured is answered 401 with a Basic challenge and the fixed body; no
\* exception escapes and no collaborator is called.
C5_Challenge ==
    (/\ pc = "done"
     /\ auth_creds # <<>>
     /\ request.HTTP_AUTHORIZATION
            \notin { <<scheme, b64(auth_creds[1] \o <<":">> \o auth_creds[2])>> :
                       scheme \in {"Basic", "basic", "BASIC"} })
        => /\ raised = "none"
           /\ Status = <<"401", "Unauthorized">>
           /\ HasHeader("WWW-Authenticate", "Basic realm=\"zimAuth\"")
           /\ body = << <<"Please authenticate">> >>
           /\ accessed = <<>>

\* C6: the body of a 404 response to a GET request contains the path the
\* client requested, for a page the store does not have and for a file whose
\* lookup raises FileNotFoundError.  Stated for requested paths the cleanup
\* leaves as they are (and for /favicon.ico), so that every rewriting seen
\* is the resolution's own.
C6_NotFoundNamesRequest ==
    (/\ ReachedTry
     /\ request.REQUEST_METHOD = "GET"
     /\ Status = <<"404", "Not Found">>
     /\ \/ ResolvedPath = request.PATH_INFO
        \/ request.PATH_INFO =
             <<"/", "f", "a", "v", "i", "c", "o", "n", ".", "i", "c", "o">>
     /\ \/ PageRequest /\ ext.page = "PageNotFoundError"
        \/ ext.read = "FileNotFoundError")
        => \E i \in 1..Len(body) : Contains(body[i], request.PATH_INFO)

\* The collaborators raised an exception other than FileNotFoundError and
\* PageNotFoundError during the resolution (ext holds an answer only where
\* it was consulted).
UnexpectedRaised ==
    "Error" \in {ext.read, ext.lookup, ext.page, ext.render}

\* C7: when the resolution raises an exception that is neither a WWWError
\* nor a FileNotFoundError, the response is 500 Internal Server Error, and
\* the body of a GET is that fixed text alone; a 404 is never the answer to
\* such an exception.
C7_UnexpectedIs500 ==
    pc = "done" =>
        /\ UnexpectedRaised =>
              /\ raised = "none"
              /\ Status = <<"500", "Internal Server Error">>
              /\ request.REQUEST_METHOD = "GET"
                    => body = << <<"Internal Server Error">> >>
              /\ request.REQUEST_METHOD = "HEAD" => body = <<>>
        /\ Status = <<"404", "Not Found">> => ~UnexpectedRaised

\* A GET request whose file could not be read for another reason than its
\* absence was answered 500.
C7_Witness ==
    /\ pc = "done"
    /\ request.REQUEST_METHOD = "GET"
    /\ ext.read = "Error"
    /\ \E i \in 1..Len(accessed) : accessed[i][1] = "read_binary"
    /\ Status = <<"500", "Internal Server Error">>
    /\ body = << <<"Internal Server Error">> >>

\* C8 as claimed: a GET request for the index of a namespace without child
\* pages, the store raising nothing, is answered 200 and never 404.
C8_EmptyNamespaceIs200 ==
    (/\ NamespaceRequest
     /\ request.REQUEST_METHOD = "GET"
     /\ ext.lookup = "ok"
     /\ ext.page \in {"content", "empty"}
     /\ ext.render = "ok")
        => Status = <<"200", "OK">>

\* C8 as amended: a GET request for the index of a namespace without child
\* pages, the store raising nothing, is answered 404 when the page of that
\* name has no content, and 200 with that page rendered when it has.
C8_EmptyNamespace ==
    (/\ NamespaceRequest
     /\ request.REQUEST_METHOD = "GET"
     /\ ext.lookup = "ok"
     /\ ext.render = "ok")
        => /\ ext.page = "empty" => Status = <<"404", "Not Found">>
           /\ ext.page = "content"
                 => /\ Status = <<"200", "OK">>
                    /\ Len(body) = 1 /\ Head(body[1]) = "page "

\* A GET request for a namespace whose page has neither content nor
\* children was answered 404 after the page was fetched.
C8_Witness ==
    /\ NamespaceRequest
    /\ request.REQUEST_METHOD = "GET"
    /\ ext.page = "empty"
    /\ \E i \in 1..Len(accessed) : accessed[i][1] = "get_page"
    /\ Status = <<"404", "Not Found">>

\* C9: a GET request for a page is answered by content first, then
\* children, else not found: 404 when get_page raises PageNotFoundError, the
\* page rendered (200) when it has content, with or without children, the
\* index of its children rendered (200) when it has only children, 404 when
\* it has neither.  (The lookup and the rendering raise nothing: C7.)
C9_ContentThenChildren ==
    (/\ PageRequest
     /\ request.REQUEST_METHOD = "GET"
     /\ ext.lookup = "ok"
     /\ ext.render = "ok")
        => /\ ext.page = "PageNotFoundError" => Status = <<"404", "Not Found">>
           /\ ext.page \in {"content+children", "content"}
                 => /\ Status = <<"200", "OK">>
                    /\ Len(body) = 1 /\ Head(body[1]) = "page "
           /\ ext.page = "children"
                 => /\ Status = <<"200", "OK">>
                    /\ Len(body) = 1 /\ Head(body[1]) = "index of "
           /\ ext.page = "empty" => Status = <<"404", "Not Found">>

\* A GET request for a page with content and children was answered with the
\* page itself.
C9_Witness ==
    /\ PageRequest
    /\ request.REQUEST_METHOD = "GET"
    /\ ext.page = "content+children"
    /\ Status = <<"200", "OK">>
    /\ Len(body) = 1 /\ Head(body[1]) = "page "

\* C10: every call calls start_response exactly once and returns a body; no
\* exception escapes.
C10_OneResponse ==
    pc = "done" => (Len(started) = 1 /\ raised = "none")

====
